---- MODULE Spec2Model ----
(***************************************************************************)
(* A model of publish.py, the workshop publishing script: the notebook     *)
(* processor, the markdown processor, the asset bundler, the index builder *)
(* and the main routine that drives them.                                  *)
(*                                                                         *)
(* Python values are modelled as follows.  A dict is a function whose      *)
(* DOMAIN is its keys; a list is a sequence; None in a string-valued slot  *)
(* is the sentinel NONE; an optional integer is a sequence of length 0     *)
(* (None) or 1.  A str that the code takes apart (a markdown line) is a    *)
(* sequence of one-character strings; a str it only joins or compares is a *)
(* TLA+ string.                                                            *)
(***************************************************************************)
EXTENDS Integers, Sequences, FiniteSets, TLC

VARIABLES
    nb,               \* process_notebook under test: its arguments and the files it reads
    nb_res,           \* what that call returned and wrote
    md,               \* process_markdown under test
    md_res,
    zp,               \* create_data_zip under test
    zp_res,
    ix,               \* create_index under test
    ix_res,
    config,           \* main: the loaded configuration
    tree,             \* main: the input tree (documents per folder, slide files present)
    out,              \* main: the output directory, file name -> content
    processed_items,  \* main: the records collected so far
    pc,               \* main: position of the run
    todo,             \* main: documents of the current section still to enumerate
    log,              \* main: what the run did to each document, in order
    exit_status       \* main: the exit status once the process has ended

vars == <<nb, nb_res, md, md_res, zp, zp_res, ix, ix_res,
          config, tree, out, processed_items, pc, todo, log, exit_status>>

nbVars  == <<nb, nb_res>>
mdVars  == <<md, md_res>>
zpVars  == <<zp, zp_res>>
ixVars  == <<ix, ix_res>>
runVars == <<config, tree, out, processed_items, pc, todo, log, exit_status>>

-----------------------------------------------------------------------------
(* Bounds of the model *)

MaxCells == 3
MaxPatterns == 2
MaxLines == 3
MaxItems == 3
MaxSections == 2

-----------------------------------------------------------------------------
(* Python values *)

NONE == "None"

EmptyDict == [k \in {} |-> 0]

\* the value of a variable that a specification does not use, and of a result
\* before the call
Idle == [status |-> "idle"]

IdleNb  == nb = Idle /\ nb_res = Idle
IdleMd  == md = Idle /\ md_res = Idle
IdleZp  == zp = Idle /\ zp_res = Idle
IdleIx  == ix = Idle /\ ix_res = Idle
IdleRun == /\ config = Idle /\ tree = Idle /\ out = Idle /\ processed_items = Idle
           /\ pc = Idle /\ todo = Idle /\ log = Idle /\ exit_status = Idle

\* d.get(k, default)
Get(d, k, default) == IF k \in DOMAIN d THEN d[k] ELSE default

\* x in list
InList(x, list) == \E i \in 1..Len(list) : list[i] = x

\* list.insert(pos, x), pos counted from 0 and not beyond the end
Insert(list, pos, x) ==
    SubSeq(list, 1, pos) \o <<x>> \o SubSeq(list, pos + 1, Len(list))

\* the sequences over S of length at most n
SeqsUpTo(S, n) == UNION {[1..k -> S] : k \in 0..n}

\* truthiness of a string-valued slot: None and '' are falsy
Truthy(s) == s # NONE /\ s # ""

-----------------------------------------------------------------------------
(* process_notebook: the cells *)

\* the cell that replaces a solution-tagged cell in the exercise version
EmptyCell ==
    [cell_type |-> "code", metadata |-> EmptyDict, source |-> <<>>,
     execution_count |-> NONE, outputs |-> <<>>]

\* IsSolution looking at the first tag only
IsSolutionFirstTag(cell) ==
    LET tags == Get(Get(cell, "metadata", EmptyDict), "tags", <<>>)
    IN  tags # <<>> /\ tags[1] = "solution"

\* cell.get('metadata', {}).get('tags') and 'solution' in cell['metadata']['tags']
IsSolution(cell) ==
    LET tags == Get(Get(cell, "metadata", EmptyDict), "tags", <<>>)
    IN  tags # <<>> /\ InList("solution", tags)

\* the loop that builds exercise_nb['cells'] from the deep copy of the cells
ExerciseCells(cells) ==
    [i \in 1..Len(cells) |-> IF IsSolution(cells[i]) THEN EmptyCell ELSE cells[i]]

\* InsertPos always at the top
InsertPosAtTop(cells) == 0

\* insert_pos: just after the first markdown cell, 0 when there is none
InsertPos(cells) ==
    IF \E i \in 1..Len(cells) : cells[i].cell_type = "markdown"
    THEN CHOOSE i \in 1..Len(cells) :
            /\ cells[i].cell_type = "markdown"
            /\ \A j \in 1..(i - 1) : cells[j].cell_type # "markdown"
    ELSE 0

-----------------------------------------------------------------------------
(* Paths.  A path is the sequence of its components; an absolute path has  *)
(* the component "/" first.  The files of the input tree are a set of      *)
(* normalised paths taken from the project root, the working directory.    *)

\* pathlib's base / rel: an absolute right operand replaces the base
Join(base, rel) == IF rel # <<>> /\ rel[1] = "/" THEN rel ELSE base \o rel

RECURSIVE NormAcc(_, _)
NormAcc(p, acc) ==
    IF p = <<>> THEN acc
    ELSE IF Head(p) = ".." /\ acc # <<>> /\ acc[Len(acc)] \notin {"..", "/"}
         THEN NormAcc(Tail(p), SubSeq(acc, 1, Len(acc) - 1))
         ELSE IF Head(p) = ".." /\ acc # <<>> /\ acc[Len(acc)] = "/"
              THEN NormAcc(Tail(p), acc)
              ELSE NormAcc(Tail(p), Append(acc, Head(p)))

\* the file a spelled path denotes (what the operating system resolves it to),
\* which is also os.path.normpath of the spelling
Norm(p) == NormAcc(p, <<>>)

IsPrefix(d, p) == Len(d) <= Len(p) /\ SubSeq(p, 1, Len(d)) = d

IsDir(files, d) == \E f \in files : Len(f) > Len(d) /\ IsPrefix(d, f)

\* every directory named on the way of a spelling exists
Walkable(files, p) ==
    \A k \in 0..(Len(p) - 1) : IsDir(files, Norm(SubSeq(p, 1, k)))

\* Path.exists()
Exists(files, p) ==
    Walkable(files, p) /\ (Norm(p) \in files \/ IsDir(files, Norm(p)))

\* the names in directory d
Listdir(files, d) ==
    {f[Len(d) + 1] : f \in {g \in files : Len(g) > Len(d) /\ IsPrefix(d, g)}}

\* the names of S in enumeration order
RECURSIVE Enumerate(_, _)
Enumerate(S, enum) ==
    IF enum = <<>> THEN <<>>
    ELSE (IF Head(enum) \in S THEN <<Head(enum)>> ELSE <<>>) \o Enumerate(S, Tail(enum))

\* glob(full_pattern): the matches, each spelled the way the pattern spells it,
\* in enumeration order; "*" matches every name of a directory
RECURSIVE GlobFrom(_, _, _, _)
RECURSIVE GlobEach(_, _, _, _, _)
GlobEach(files, enum, prefix, names, rest) ==
    IF names = <<>> THEN <<>>
    ELSE GlobFrom(files, enum, Append(prefix, Head(names)), rest)
         \o GlobEach(files, enum, prefix, Tail(names), rest)
GlobFrom(files, enum, prefix, rest) ==
    IF rest = <<>>
    THEN IF Exists(files, prefix) THEN <<prefix>> ELSE <<>>
    ELSE IF ~ (Walkable(files, prefix) /\ IsDir(files, Norm(prefix))) THEN <<>>
         ELSE IF Head(rest) = "*"
              THEN GlobEach(files, enum, prefix,
                            Enumerate(Listdir(files, Norm(prefix)), enum), Tail(rest))
              ELSE GlobFrom(files, enum, Append(prefix, Head(rest)), Tail(rest))

Glob(files, enum, full_pattern) ==
    IF full_pattern # <<>> /\ full_pattern[1] = "/"
    THEN GlobFrom(files, enum, <<"/">>, Tail(full_pattern))
    ELSE GlobFrom(files, enum, <<>>, full_pattern)

-----------------------------------------------------------------------------
(* create_data_zip *)

\* Arcname without the relative_to: the member keeps the document directory
ArcnameNotRelative(file_path, base_dir) == file_path

\* file_path.relative_to(base_dir), or file_path itself on ValueError
Arcname(file_path, base_dir) ==
    IF IsPrefix(base_dir, file_path)
    THEN SubSeq(file_path, Len(base_dir) + 1, Len(file_path))
    ELSE file_path

\* the member name ZipFile.write stores: normalised, leading separators dropped
ZipMemberName(arcname) ==
    LET n == Norm(arcname) IN IF n # <<>> /\ n[1] = "/" THEN Tail(n) ELSE n

\* the inner loop: one match
ZipAddMatch(z, file_path, base_dir) ==
    IF file_path \notin z.added_files
    THEN [z EXCEPT !.members = Append(@, [name |-> ZipMemberName(Arcname(file_path, base_dir)),
                                         file |-> Norm(file_path)]),
                   !.added_files = @ \cup {file_path}]
    ELSE z

RECURSIVE ZipAddMatches(_, _, _)
ZipAddMatches(z, matches, base_dir) ==
    IF matches = <<>> THEN z
    ELSE ZipAddMatches(ZipAddMatch(z, Head(matches), base_dir), Tail(matches), base_dir)

\* ZipAddPatterns giving up at the first pattern that matches nothing
RECURSIVE ZipAddPatternsUntilUnmatched(_, _, _, _, _)
ZipAddPatternsUntilUnmatched(z, files, enum, data_patterns, base_dir) ==
    IF data_patterns = <<>> THEN z
    ELSE LET pattern == Head(data_patterns)
             matches == Glob(files, enum, Join(base_dir, pattern))
         IN  IF matches = <<>> THEN [z EXCEPT !.warnings = Append(@, pattern)]
             ELSE ZipAddPatternsUntilUnmatched(ZipAddMatches(z, matches, base_dir),
                                               files, enum, Tail(data_patterns), base_dir)

\* the outer loop: one pattern, with its warning when nothing matches
RECURSIVE ZipAddPatterns(_, _, _, _, _)
ZipAddPatterns(z, files, enum, data_patterns, base_dir) ==
    IF data_patterns = <<>> THEN z
    ELSE LET pattern == Head(data_patterns)
             matches == Glob(files, enum, Join(base_dir, pattern))
             warned  == IF matches = <<>>
                        THEN [z EXCEPT !.warnings = Append(@, pattern)] ELSE z
         IN  ZipAddPatterns(ZipAddMatches(warned, matches, base_dir),
                            files, enum, Tail(data_patterns), base_dir)

\* create_data_zip: the archive written, the count it prints, its warnings
CreateDataZip(files, enum, data_patterns, base_dir) ==
    LET z == ZipAddPatterns([members |-> <<>>, added_files |-> {}, warnings |-> <<>>],
                            files, enum, data_patterns, base_dir)
    IN  [status   |-> "done",
         members  |-> z.members,
         reported |-> Cardinality(z.added_files),
         warnings |-> z.warnings]

-----------------------------------------------------------------------------
(* The output directory: a dict from file name to what was written there.  *)
(* The field "from" of a content records the source it was derived from.   *)

Put(d, k, v) == [x \in DOMAIN d \cup {k} |-> IF x = k THEN v ELSE d[x]]

\* shutil.copy2 guarded by "if not dest.exists()"
CopyIfAbsent(output, name, source) ==
    IF name \in DOMAIN output THEN output
    ELSE Put(output, name, [kind |-> "copy", from |-> source])

\* a metadata value read from a document: a mapping, or some other value
PyDict(d) == [type |-> "dict", value |-> d]
PyOther(truthy) == [type |-> "other", truthy |-> truthy]

\* "if not metadata"
Falsy(m) == IF m.type = "dict" THEN m.value = EmptyDict ELSE ~ m.truthy

-----------------------------------------------------------------------------
(* process_notebook *)

\* create_setup_cell: the lines that depend on the arguments
SetupCell(zip_name, install_packages, links) ==
    [cell_type |-> "code", metadata |-> EmptyDict,
     source |-> <<[text |-> "# First we need to download some things!"]>>
                \o [i \in 1..Len(install_packages) |->
                        [text |-> "!pip install --upgrade --quiet " \o install_packages[i]]]
                \o <<[text |-> "urllib.request.urlretrieve(url, '" \o zip_name \o "')"]>>
                \o [i \in 1..Len(links) |-> [text |-> "# - " \o links[i]]],
     execution_count |-> NONE, outputs |-> <<>>]

SlideLinkCell(slide_file) ==
    [cell_type |-> "markdown", metadata |-> EmptyDict,
     source |-> <<[link |-> slide_file]>>]

\* the local files a list of source lines refers to, in order (re.findall)
RECURSIVE LinksOf(_)
LinksOf(source) ==
    IF source = <<>> THEN <<>>
    ELSE (IF "link" \in DOMAIN Head(source) THEN <<Head(source).link>> ELSE <<>>)
         \o LinksOf(Tail(source))

\* find_and_copy_referenced_files: the matches of all markdown cells, in order
RECURSIVE ReferencedFiles(_)
ReferencedFiles(cells) ==
    IF cells = <<>> THEN <<>>
    ELSE (IF Head(cells).cell_type = "markdown"
          THEN LinksOf(Get(Head(cells), "source", <<>>)) ELSE <<>>)
         \o ReferencedFiles(Tail(cells))

\* the copy loop shared by find_and_copy_referenced_files and
\* copy_markdown_referenced_files
RECURSIVE CopyReferenced(_, _, _, _)
CopyReferenced(output, files, dir, matches) ==
    IF matches = <<>> THEN output
    ELSE LET source_file == Append(dir, Head(matches))
         IN  CopyReferenced(IF Exists(files, source_file)
                            THEN CopyIfAbsent(output, Head(matches), source_file)
                            ELSE output,
                            files, dir, Tail(matches))

\* the slide file looked up beside the document, then from the project root;
\* <<>> when it is in neither place
SlideSource(files, dir, slide_file) ==
    IF Exists(files, Append(dir, slide_file)) THEN <<Append(dir, slide_file)>>
    ELSE IF Exists(files, <<slide_file>>) THEN <<<<slide_file>>>>
    ELSE <<>>

\* EffectiveSlides without the section's slide file
EffectiveSlidesOwnOnly(metadata, section_slides) == Get(metadata, "slides", NONE)

\* metadata['slides'] after "if not metadata.get('slides') and section_slides"
EffectiveSlides(metadata, section_slides) ==
    IF ~ Truthy(Get(metadata, "slides", NONE)) /\ Truthy(section_slides)
    THEN section_slides ELSE Get(metadata, "slides", NONE)

\* ExerciseWithSetup putting the setup cell last
ExerciseSetupElsewhere(exercise, insert_pos, setup_cell) == Append(exercise, setup_cell)

\* exercise_nb['cells'].insert(insert_pos, setup_cell)
ExerciseWithSetup(exercise, insert_pos, setup_cell) == Insert(exercise, insert_pos, setup_cell)

\* process_notebook(notebook_path, output_dir, config, section_slides), the
\* notebook read from doc, the output directory holding output before the call
ProcessNotebook(doc, output, files, enum, section_slides) ==
    IF Falsy(doc.workshop) THEN [status |-> "skip", out |-> output, info |-> EmptyDict]
    ELSE IF doc.workshop.type # "dict"
    THEN [status |-> "crash", out |-> output, info |-> EmptyDict]
    ELSE
    LET metadata    == doc.workshop.value
        slide_file  == EffectiveSlides(metadata, section_slides)
        base_name   == doc.stem
        data_files  == Get(metadata, "data_files", <<>>)
        has_data    == data_files # <<>>
        zip_name    == base_name \o "-data.zip"
        setup_cell  == SetupCell(zip_name, Get(metadata, "install", <<"pandas", "natural_pdf", "tqdm">>),
                                 Get(metadata, "links", <<>>))
        insert_pos  == InsertPos(doc.cells)
        complete1   == IF has_data THEN Insert(doc.cells, insert_pos, setup_cell) ELSE doc.cells
        exercise1   == IF has_data
                       THEN ExerciseWithSetup(ExerciseCells(doc.cells), insert_pos, setup_cell)
                       ELSE ExerciseCells(doc.cells)
        out1        == IF has_data
                       THEN Put(output, zip_name,
                                [kind |-> "zip", from |-> Append(doc.dir, doc.file),
                                 archive |-> CreateDataZip(files, enum, data_files, doc.dir)])
                       ELSE output
        \* the scan reads notebook['cells'], the list the setup cell went into
        out2        == CopyReferenced(out1, files, doc.dir, ReferencedFiles(complete1))
        has_slides  == Truthy(slide_file)
        complete2   == IF has_slides THEN Insert(complete1, 0, SlideLinkCell(slide_file)) ELSE complete1
        exercise2   == IF has_slides THEN Insert(exercise1, 0, SlideLinkCell(slide_file)) ELSE exercise1
        source_pdf  == SlideSource(files, doc.dir, slide_file)
        out3        == IF has_slides /\ source_pdf # <<>>
                       THEN CopyIfAbsent(out2, slide_file, source_pdf[1]) ELSE out2
        out4        == Put(out3, base_name \o ".ipynb",
                           [kind |-> "ipynb", from |-> Append(doc.dir, doc.file),
                            kernelspec |-> "python3", cells |-> exercise2])
        out5        == Put(out4, base_name \o "-ANSWERS.ipynb",
                           [kind |-> "ipynb", from |-> Append(doc.dir, doc.file),
                            kernelspec |-> "python3", cells |-> complete2])
    IN  IF has_slides /\ source_pdf = <<>>
        THEN [status |-> "exit", out |-> out2, info |-> EmptyDict]
        ELSE [status |-> "ok", out |-> out5,
              info |-> [name          |-> base_name,
                        title         |-> Get(metadata, "title", base_name),
                        description   |-> Get(metadata, "description", ""),
                        exercise_file |-> base_name \o ".ipynb",
                        answers_file  |-> base_name \o "-ANSWERS.ipynb",
                        data_file     |-> IF has_data THEN zip_name ELSE NONE,
                        section       |-> doc.dir[Len(doc.dir)],
                        order         |-> Get(metadata, "order", <<>>),
                        links         |-> Get(metadata, "links", <<>>),
                        slides        |-> slide_file]]

-----------------------------------------------------------------------------
(* The slide embedder *)

Remove(d, k) == [x \in DOMAIN d \ {k} |-> d[x]]

\* Path(slide_file).stem of the slide files of the model
PdfStem(slide_file) ==
    CASE slide_file = "s1.pdf" -> "s1"
      [] slide_file = "s2.pdf" -> "s2"
      [] OTHER -> slide_file

\* CreateSlideThumbnail giving up after the first tool
CreateSlideThumbnailConvertOnly(output, pdf_stem, tools) ==
    LET thumb_name == pdf_stem \o "-thumb.png"
    IN  IF thumb_name \in DOMAIN output
        THEN [out |-> output, thumb |-> <<thumb_name>>, invoked |-> <<>>]
        ELSE IF tools.convert = "ok"
        THEN [out |-> Put(output, thumb_name, [kind |-> "thumb", from |-> "convert"]),
              thumb |-> <<thumb_name>>, invoked |-> <<"convert">>]
        ELSE [out |-> output, thumb |-> <<>>, invoked |-> <<"convert">>]

\* create_slide_thumbnail: tools gives how each external tool ends, one of
\* "ok" (return code 0), "fail" (another return code), "raise" (not installed);
\* pdftoppm may also end "nofile" (return code 0, nothing written)
CreateSlideThumbnail(output, pdf_stem, tools) ==
    LET thumb_name == pdf_stem \o "-thumb.png"
        png_name   == pdf_stem \o ".png"
        after_ppm  == IF tools.pdftoppm = "ok"
                      THEN Put(output, png_name, [kind |-> "thumb", from |-> "pdftoppm"])
                      ELSE output
    IN  IF thumb_name \in DOMAIN output
        THEN [out |-> output, thumb |-> <<thumb_name>>, invoked |-> <<>>]
        ELSE IF tools.convert = "ok"
        THEN [out |-> Put(output, thumb_name, [kind |-> "thumb", from |-> "convert"]),
              thumb |-> <<thumb_name>>, invoked |-> <<"convert">>]
        ELSE IF tools.pdftoppm \in {"ok", "nofile"} /\ png_name \in DOMAIN after_ppm
        THEN [out |-> Put(Remove(after_ppm, png_name), thumb_name, after_ppm[png_name]),
              thumb |-> <<thumb_name>>, invoked |-> <<"convert", "pdftoppm">>]
        ELSE [out |-> after_ppm, thumb |-> <<>>, invoked |-> <<"convert", "pdftoppm">>]

\* generate_slide_embed: status "exit" when the slide file is in neither place
GenerateSlideEmbed(output, files, slide_file, notebook_dir, tools) ==
    LET source_pdf == SlideSource(files, notebook_dir, slide_file)
        out1       == CopyIfAbsent(output, slide_file, source_pdf[1])
        thumb      == CreateSlideThumbnail(out1, PdfStem(source_pdf[1][Len(source_pdf[1])]), tools)
    IN  IF source_pdf = <<>>
        THEN [status |-> "exit", out |-> output, html |-> <<>>, invoked |-> <<>>]
        ELSE [status |-> "ok", out |-> thumb.out,
              html |-> <<[slide_file |-> slide_file,
                          preview |-> IF thumb.thumb # <<>> THEN thumb.thumb[1] ELSE "placeholder"]>>,
              invoked |-> thumb.invoked]

-----------------------------------------------------------------------------
(* process_markdown *)

\* str(...) of a word, one character per element
UsefulLinks == <<"U", "s", "e", "f", "u", "l", " ", "L", "i", "n", "k", "s">>

\* the heading pattern without its blank: '^##(.+)$'
HeaderMatchNoBlank(text) == Len(text) >= 3 /\ SubSeq(text, 1, 2) = <<"#", "#">>

\* header_pattern = r'^## (.+)$' on one line
HeaderMatch(text) == Len(text) >= 4 /\ SubSeq(text, 1, 3) = <<"#", "#", " ">>

\* re.findall(header_pattern, markdown_content, re.MULTILINE)
RECURSIVE FindHeaders(_)
FindHeaders(lines) ==
    IF lines = <<>> THEN <<>>
    ELSE (IF HeaderMatch(Head(lines).text)
          THEN <<SubSeq(Head(lines).text, 4, Len(Head(lines).text))>> ELSE <<>>)
         \o FindHeaders(Tail(lines))

\* \w, \s and '-' of the characters of the model
KeptInAnchor(c) == c \notin {"#", "!"}

Lower(c) ==
    CASE c = "A" -> "a" [] c = "U" -> "u" [] c = "L" -> "l" [] OTHER -> c

RECURSIVE Strip(_)
Strip(t) ==
    IF t # <<>> /\ Head(t) = " " THEN Strip(Tail(t))
    ELSE IF t # <<>> /\ t[Len(t)] = " " THEN Strip(SubSeq(t, 1, Len(t) - 1))
    ELSE t

\* re.sub(r'[^\w\s-]', '', header).strip().lower().replace(' ', '-')
Anchor(header) ==
    LET kept == Strip(SelectSeq(header, KeptInAnchor))
    IN  [i \in 1..Len(kept) |-> IF kept[i] = " " THEN "-" ELSE Lower(kept[i])]

\* generate_toc_from_markdown: the entry lines after "## Table of Contents",
\* <<>> for the empty string
GenerateToc(markdown_content, has_useful_links) ==
    LET found   == FindHeaders(markdown_content)
        headers == IF has_useful_links THEN <<UsefulLinks>> \o found ELSE found
    IN  [i \in 1..Len(headers) |-> [header |-> headers[i], anchor |-> Anchor(headers[i])]]

\* extract_markdown_frontmatter: content.header is what stands between the
\* leading '---' lines, <<>> when the content does not start with such a block
ExtractFrontmatter(content) ==
    IF content.header = <<>> THEN [frontmatter |-> PyDict(EmptyDict), body |-> content.body]
    ELSE IF content.header[1].yaml = "invalid"
         THEN [frontmatter |-> PyDict(EmptyDict), body |-> content.body]
         ELSE [frontmatter |-> content.header[1].value, body |-> content.body]

\* the local files the lines of a markdown body refer to, in order
RECURSIVE BodyLinks(_)
BodyLinks(lines) ==
    IF lines = <<>> THEN <<>> ELSE Head(lines).links \o BodyLinks(Tail(lines))

\* process_markdown(markdown_path, output_dir, config, section_slides)
ProcessMarkdown(doc, output, files, enum, section_slides, tools) ==
    LET parsed == ExtractFrontmatter(doc.content)
    IN
    IF Falsy(parsed.frontmatter)
    THEN [status |-> "skip", out |-> output, info |-> EmptyDict, invoked |-> <<>>]
    ELSE IF parsed.frontmatter.type # "dict"
    THEN [status |-> "crash", out |-> output, info |-> EmptyDict, invoked |-> <<>>]
    ELSE
    LET frontmatter == parsed.frontmatter.value
        slide_file  == EffectiveSlides(frontmatter, section_slides)
        base_name   == doc.stem
        title       == Get(frontmatter, "title", base_name)
        data_files  == Get(frontmatter, "data_files", <<>>)
        has_data    == data_files # <<>>
        zip_name    == base_name \o "-data.zip"
        links       == Get(frontmatter, "links", <<>>)
        out1        == CopyReferenced(output, files, doc.dir, BodyLinks(parsed.body))
        out2        == IF has_data
                       THEN Put(out1, zip_name,
                                [kind |-> "zip", from |-> Append(doc.dir, doc.file),
                                 archive |-> CreateDataZip(files, enum, data_files, doc.dir)])
                       ELSE out1
        toc         == GenerateToc(parsed.body, links # <<>>)
        embed       == IF Truthy(slide_file)
                       THEN GenerateSlideEmbed(out2, files, slide_file, doc.dir, tools)
                       ELSE [status |-> "ok", out |-> out2, html |-> <<>>, invoked |-> <<>>]
        html        == [kind |-> "html", from |-> Append(doc.dir, doc.file),
                        title |-> title, toc |-> toc,
                        download |-> IF has_data THEN zip_name ELSE NONE,
                        slides |-> embed.html, links |-> links, body |-> parsed.body]
    IN  IF embed.status = "exit"
        THEN [status |-> "exit", out |-> embed.out, info |-> EmptyDict, invoked |-> <<>>]
        ELSE [status |-> "ok", out |-> Put(embed.out, base_name \o ".html", html),
              invoked |-> embed.invoked,
              info |-> [name        |-> base_name,
                        title       |-> title,
                        description |-> Get(frontmatter, "description", ""),
                        html_file   |-> base_name \o ".html",
                        data_file   |-> IF has_data THEN zip_name ELSE NONE,
                        section     |-> doc.dir[Len(doc.dir)],
                        type        |-> "markdown",
                        order       |-> Get(frontmatter, "order", <<>>),
                        links       |-> links,
                        slides      |-> slide_file]]

-----------------------------------------------------------------------------
(* create_index *)

PyStr(x) == [type |-> "str", value |-> x]

\* the code points of the strings the model compares
CodePoints(x) ==
    CASE x = ""  -> <<>>
      [] x = "a" -> <<97>>
      [] x = "b" -> <<98>>
      [] x = "m" -> <<109>>
      [] x = "x" -> <<120>>
      [] x = "y" -> <<121>>
      [] x = "z" -> <<122>>
      [] x = "v" -> <<118>>
      [] x = "w" -> <<119>>
      [] x = "index" -> <<105, 110, 100, 101, 120>>
      [] x = "T" -> <<84>>
      [] x = "M" -> <<77>>
      [] x = "xy" -> <<120, 121>>
      [] x = "x-ANSWERS" -> <<120, 45, 65, 78, 83, 87, 69, 82, 83>>

RECURSIVE SeqLess(_, _)
SeqLess(p, q) ==
    IF q = <<>> THEN FALSE
    ELSE IF p = <<>> THEN TRUE
    ELSE IF Head(p) # Head(q) THEN Head(p) < Head(q)
    ELSE SeqLess(Tail(p), Tail(q))

\* x < y on str
StrLess(x, y) == SeqLess(CodePoints(x), CodePoints(y))

\* sort_key(item)
SortKey(item) ==
    IF item.order # <<>>
    THEN [rank |-> 0, order |-> item.order[1], name |-> ""]
    ELSE [rank |-> 1, order |-> 0, name |-> item.name]

\* the order of the tuples sort_key returns
SortKeyLess(i, j) ==
    LET k == SortKey(i)
        l == SortKey(j)
    IN  \/ k.rank < l.rank
        \/ k.rank = l.rank /\ k.order < l.order
        \/ k.rank = l.rank /\ k.order = l.order /\ StrLess(k.name, l.name)

\* key=lambda x: x['name'], reverse=True
NameGreater(i, j) == StrLess(j.name, i.name)

\* the order sorted() sorts by: the tuples of sort_key, or the names reversed
ItemLess(by, i, j) == IF by = "sort_key" THEN SortKeyLess(i, j) ELSE NameGreater(i, j)

\* sorted(list, key=...): stable
RECURSIVE InsertSorted(_, _, _)
InsertSorted(acc, x, by) ==
    IF acc = <<>> THEN <<x>>
    ELSE IF ItemLess(by, x, acc[Len(acc)])
         THEN Append(InsertSorted(SubSeq(acc, 1, Len(acc) - 1), x, by), acc[Len(acc)])
         ELSE Append(acc, x)

RECURSIVE SortFrom(_, _, _)
SortFrom(acc, list, by) ==
    IF list = <<>> THEN acc
    ELSE SortFrom(InsertSorted(acc, Head(list), by), Tail(list), by)

StableSort(list, by) == SortFrom(<<>>, list, by)

\* SortItems without the second sort: the items without order by name, ascending
SortItemsNameAscending(section_items) ==
    LET sorted_items == StableSort(section_items, "sort_key")
        HasOrder(item) == item.order # <<>>
        NoOrder(item) == item.order = <<>>
    IN  SelectSeq(sorted_items, HasOrder) \o SelectSeq(sorted_items, NoOrder)

\* sorted_items = items_with_order + items_without_order
SortItems(section_items) ==
    LET sorted_items == StableSort(section_items, "sort_key")
        HasOrder(item) == item.order # <<>>
        NoOrder(item) == item.order = <<>>
    IN  SelectSeq(sorted_items, HasOrder)
        \o StableSort(SelectSeq(sorted_items, NoOrder), "name_reverse")

\* section_cfg.get('title', section_cfg.get('folder'))
SectionTitle(section_cfg) ==
    Get(section_cfg, "title", Get(section_cfg, "folder", NONE))

\* section_configs: the last mapping entry of each title
SectionConfig(sections_cfg, title) ==
    LET hits == {i \in 1..Len(sections_cfg) :
                    /\ sections_cfg[i].type = "dict"
                    /\ SectionTitle(sections_cfg[i].value) = title}
    IN  IF hits = {} THEN EmptyDict
        ELSE sections_cfg[CHOOSE i \in hits : \A j \in hits : j <= i].value

\* sections[section]: the items of a section, in the order of the list
ItemsOf(notebooks, section) ==
    LET InSection(nbk) == nbk.section = section IN SelectSeq(notebooks, InSection)

SectionKeys(notebooks) == {notebooks[i].section : i \in 1..Len(notebooks)}

\* the first loop over the configuration: the titles of the mapping entries
\* that have items, one per entry
RECURSIVE ConfiguredOrder(_, _)
ConfiguredOrder(sections_cfg, keys) ==
    IF sections_cfg = <<>> THEN <<>>
    ELSE (IF Head(sections_cfg).type = "dict"
             /\ SectionTitle(Head(sections_cfg).value) \in keys
          THEN <<SectionTitle(Head(sections_cfg).value)>> ELSE <<>>)
         \o ConfiguredOrder(Tail(sections_cfg), keys)

\* sorted(S) for a set of str
RECURSIVE SortedStrings(_)
SortedStrings(S) ==
    IF S = {} THEN <<>>
    ELSE LET least == CHOOSE x \in S : \A y \in S : ~ StrLess(y, x)
         IN  <<least>> \o SortedStrings(S \ {least})

\* section_order
SectionOrder(sections_cfg, notebooks) ==
    LET listed == ConfiguredOrder(sections_cfg, SectionKeys(notebooks))
    IN  listed \o SortedStrings({k \in SectionKeys(notebooks) : ~ InList(k, listed)})

\* Path(...).parent of a relative path
Parent(p) == IF p = <<>> THEN <<>> ELSE SubSeq(p, 1, Len(p) - 1)

\* the lines create_index renders for one item; "of" records the record
\* they were rendered from
RenderItem(item) ==
    [kind      |-> "item",
     name      |-> item.name,
     title     |-> item.title,
     href      |-> IF Get(item, "type", NONE) = "markdown"
                   THEN item.html_file ELSE item.exercise_file,
     data_file |-> item.data_file,
     slides    |-> IF Truthy(Get(item, "slides", NONE))
                      /\ ~ Truthy(Get(item, "section_slides", NONE))
                   THEN <<item.slides>> ELSE <<>>,
     links     |-> Get(item, "links", <<>>),
     of        |-> item]

\* the loop over section_order; r carries the output directory, the blocks
\* rendered so far and the tools invoked
RECURSIVE RenderSections(_, _, _, _, _, _)
RenderSections(r, order, sections_cfg, notebooks, files, tools) ==
    IF order = <<>> \/ r.status # "ok" THEN r
    ELSE
    LET section       == Head(order)
        section_items == ItemsOf(notebooks, section)
        section_cfg   == SectionConfig(sections_cfg, section)
        slides        == Get(section_cfg, "slides", NONE)
        section_dir   == IF section_items # <<>>
                         THEN <<section_items[1].section_folder>> ELSE <<>>
        embed         == IF Truthy(slides)
                         THEN GenerateSlideEmbed(r.out, files, slides, Parent(section_dir), tools)
                         ELSE [status |-> "ok", out |-> r.out, html |-> <<>>, invoked |-> <<>>]
        sorted_items  == SortItems(section_items)
        blocks        == <<[kind |-> "section", title |-> section, embed |-> embed.html]>>
                         \o [i \in 1..Len(sorted_items) |-> RenderItem(sorted_items[i])]
    IN  IF embed.status = "exit"
        THEN [r EXCEPT !.status = "exit"]
        ELSE RenderSections([status  |-> "ok", out |-> embed.out,
                             blocks  |-> r.blocks \o blocks,
                             invoked |-> r.invoked \o embed.invoked],
                            Tail(order), sections_cfg, notebooks, files, tools)

\* create_index(notebooks, config, output_dir)
CreateIndex(notebooks, cfg, output, files, tools) ==
    LET sections_cfg == Get(cfg, "sections", <<>>)
        r == RenderSections([status |-> "ok", out |-> output, blocks |-> <<>>, invoked |-> <<>>],
                            SectionOrder(sections_cfg, notebooks),
                            sections_cfg, notebooks, files, tools)
    IN  IF r.status = "exit" THEN r
        ELSE [r EXCEPT !.out = Put(r.out, "index.html",
                                   [kind |-> "index", from |-> <<"workshop-config.yaml">>,
                                    title |-> Get(cfg, "title", "Workshop"),
                                    blocks |-> r.blocks])]

-----------------------------------------------------------------------------
(* main: what it takes from a section entry and adds to a record *)

\* folder, title and section_slides of a section entry, a mapping or a str
SectionFolder(section) ==
    IF section.type = "dict" THEN Get(section.value, "folder", NONE) ELSE section.value

SectionTitleOf(section) ==
    IF section.type = "dict"
    THEN Get(section.value, "title", SectionFolder(section)) ELSE section.value

SectionSlides(section) ==
    IF section.type = "dict" THEN Get(section.value, "slides", NONE) ELSE NONE

\* the record main appends to processed_items
StampItem(info, section) ==
    LET stamped == Put(Put(info, "section", SectionTitleOf(section)),
                       "section_folder", SectionFolder(section))
    IN  IF Truthy(SectionSlides(section)) /\ ~ Truthy(Get(info, "slides", NONE))
        THEN Put(stamped, "section_slides", SectionSlides(section))
        ELSE stamped

-----------------------------------------------------------------------------
(* The notebook processor on its own: process_notebook applied to one      *)
(* notebook a/x.ipynb, for every list of cells and every workshop metadata. *)

CodeCell(metadata, source, outputs) ==
    [cell_type |-> "code", metadata |-> metadata, source |-> source,
     execution_count |-> NONE, outputs |-> outputs]

MarkdownCell(metadata, source) ==
    [cell_type |-> "markdown", metadata |-> metadata, source |-> source]

\* the cells a source notebook may hold
NbCells ==
    {MarkdownCell(EmptyDict, <<[text |-> "# Intro"]>>),
     MarkdownCell(EmptyDict, <<[link |-> "img.png"]>>),
     MarkdownCell([tags |-> <<"other", "solution">>], <<[text |-> "Because."]>>),
     CodeCell(EmptyDict, <<[text |-> "x = 1"]>>, <<>>),
     CodeCell([tags |-> <<"other">>], <<[text |-> "y = 2"]>>, <<"2">>),
     CodeCell([tags |-> <<"solution">>], <<[text |-> "answer()"]>>, <<"42">>),
     CodeCell([tags |-> <<>>], <<>>, <<>>)}

\* the workshop metadata a notebook may carry: none, a value that is no
\* mapping, and mappings with and without slides and data files
NbWorkshops ==
    {PyDict(EmptyDict), PyOther(FALSE), PyOther(TRUE),
     PyDict([title |-> "X"]),
     PyDict([title |-> "X", slides |-> "s1.pdf"]),
     PyDict([title |-> "X", data_files |-> <<<<"d1.csv">>>>]),
     PyDict([data_files |-> <<<<"nomatch.csv">>, <<"d1.csv">>>>, order |-> <<1>>]),
     PyDict([title |-> "X", slides |-> "s1.pdf", data_files |-> <<<<"*">>>>,
             links |-> <<"docs">>, install |-> <<"pandas">>])}

NbFiles == {<<"a", "x.ipynb">>, <<"a", "d1.csv">>, <<"a", "img.png">>}

NbSlideFiles == {<<"a", "s1.pdf">>, <<"s1.pdf">>, <<"s2.pdf">>}

NbEnum == <<"a", "x.ipynb", "d1.csv", "img.png", "s1.pdf", "s2.pdf">>

InitNb ==
    /\ nb \in [doc : [dir : {<<"a">>}, file : {"x.ipynb"}, stem : {"x"},
                      cells : SeqsUpTo(NbCells, MaxCells), workshop : NbWorkshops],
               section_slides : {NONE, "s2.pdf"},
               files  : {NbFiles \cup present : present \in SUBSET NbSlideFiles},
               enum   : {NbEnum},
               output : {EmptyDict}]
    /\ nb_res = Idle
    /\ IdleMd /\ IdleZp /\ IdleIx /\ IdleRun

\* the call process_notebook(notebook_path, output_dir, config, section_slides)
NotebookCall ==
    /\ nb_res = Idle
    /\ nb_res' = ProcessNotebook(nb.doc, nb.output, nb.files, nb.enum, nb.section_slides)
    /\ UNCHANGED <<nb, mdVars, zpVars, ixVars, runVars>>

NextNb == NotebookCall

SpecNb == InitNb /\ [][NextNb]_vars

NbPublished == nb_res.status = "ok"

NbExercise == nb_res.out["x.ipynb"].cells
NbAnswers  == nb_res.out["x-ANSWERS.ipynb"].cells

NbHasData   == Get(nb.doc.workshop.value, "data_files", <<>>) # <<>>
NbHasSlides == Truthy(EffectiveSlides(nb.doc.workshop.value, nb.section_slides))

\* the position in the written variants of the i-th cell of the source: after
\* the slide-link cell, and after the setup cell when that went in before it
NbPosition(i) ==
    i + (IF NbHasSlides THEN 1 ELSE 0)
      + (IF NbHasData /\ i > InsertPos(nb.doc.cells) THEN 1 ELSE 0)

\* 'solution' is among the tags of the cell's metadata
TaggedSolution(cell) ==
    /\ "metadata" \in DOMAIN cell /\ "tags" \in DOMAIN cell.metadata
    /\ \E t \in 1..Len(cell.metadata.tags) : cell.metadata.tags[t] = "solution"

\* C1: for every published notebook and every solution-tagged cell of it,
\* the cell at the corresponding position of the exercise variant has empty
\* source and the one of the answers variant is the original cell.
C1_SolutionClearedInExerciseKeptInAnswers ==
    NbPublished =>
        \A i \in 1..Len(nb.doc.cells) :
            TaggedSolution(nb.doc.cells[i]) =>
                /\ NbPosition(i) \in 1..Len(NbExercise)
                /\ NbExercise[NbPosition(i)].source = <<>>
                /\ NbPosition(i) \in 1..Len(NbAnswers)
                /\ NbAnswers[NbPosition(i)] = nb.doc.cells[i]

\* a published notebook with slide-link and setup cells injected before a
\* solution cell that has content and is not tagged 'solution' first
C1_Witness ==
    /\ NbPublished /\ NbHasData /\ NbHasSlides
    /\ \E i \in 2..Len(nb.doc.cells) :
          /\ TaggedSolution(nb.doc.cells[i])
          /\ nb.doc.cells[i].metadata.tags[1] # "solution"
          /\ i > InsertPos(nb.doc.cells) /\ InsertPos(nb.doc.cells) > 0
          /\ NbExercise[NbPosition(i)].source = <<>>
          /\ NbAnswers[NbPosition(i)].source # <<>>

\* C2 as stated: the variants have the same cells in the same order, every
\* non-solution cell is identical in both, and a solution-tagged cell has the
\* same cell type and the same metadata in both.
C2_VariantsDifferOnlyInSolutionContent ==
    NbPublished =>
        /\ Len(NbExercise) = Len(NbAnswers)
        /\ \A k \in 1..Len(NbAnswers) :
              IF TaggedSolution(NbAnswers[k])
              THEN /\ NbExercise[k].cell_type = NbAnswers[k].cell_type
                   /\ NbExercise[k].metadata = NbAnswers[k].metadata
              ELSE NbExercise[k] = NbAnswers[k]

\* C2 amended: the variants have the same number of cells in the same order,
\* every non-solution cell (injected cells included) is identical in both,
\* and at the position of a solution-tagged cell the exercise variant holds
\* an empty code cell with empty metadata, whatever the type and the
\* metadata of the cell in the answers variant.
C2_VariantsDifferOnlyInSolutionCells ==
    NbPublished =>
        /\ Len(NbExercise) = Len(NbAnswers)
        /\ nb_res.out["x.ipynb"].kernelspec = nb_res.out["x-ANSWERS.ipynb"].kernelspec
        /\ \A k \in 1..Len(NbAnswers) :
              IF TaggedSolution(NbAnswers[k])
              THEN NbExercise[k] = EmptyCell
              ELSE NbExercise[k] = NbAnswers[k]

\* a published notebook with both injected cells and a markdown solution cell
C2_Witness ==
    /\ NbPublished /\ NbHasData /\ NbHasSlides
    /\ Len(NbAnswers) = Len(nb.doc.cells) + 2
    /\ \E k \in 1..Len(NbAnswers) :
          /\ TaggedSolution(NbAnswers[k]) /\ NbAnswers[k].cell_type = "markdown"
          /\ NbExercise[k] = EmptyCell
    /\ \E k \in 1..Len(NbAnswers) :
          ~ TaggedSolution(NbAnswers[k]) /\ NbAnswers[k].cell_type = "code"

-----------------------------------------------------------------------------
(* The markdown processor on its own: process_markdown applied to one      *)
(* document a/y.md, for every body and every frontmatter block.            *)

Line(text) == [text |-> text, links |-> <<>>]

\* the lines a body may hold: second-level headings, headings of other
\* levels, near-headings, and text with a reference to a local file
MdLines ==
    {Line(<<"#", "#", " ", "A">>),
     Line(<<"#", "#", " ", "b", "!">>),
     Line(<<"#", "#", " ", " ", "A", " ", "b">>),
     Line(<<"#", " ", "A">>),
     Line(<<"#", "#", "#", " ", "A">>),
     Line(<<"#", "#", "A">>),
     Line(<<"#", "#", " ">>),
     [text |-> <<"b">>, links |-> <<"img.png">>]}

YamlInvalid  == [yaml |-> "invalid", value |-> PyOther(FALSE)]
YamlValue(v) == [yaml |-> "valid", value |-> v]

\* the frontmatter blocks a document may start with: none, one that is not
\* YAML, an empty one, one that is a YAML scalar, and mappings
MdHeaders ==
    {<<>>, <<YamlInvalid>>, <<YamlValue(PyOther(FALSE))>>, <<YamlValue(PyOther(TRUE))>>,
     <<YamlValue(PyDict([title |-> "Y"]))>>,
     <<YamlValue(PyDict([title |-> "Y", links |-> <<"docs">>]))>>,
     <<YamlValue(PyDict([slides |-> "s1.pdf", links |-> <<"docs", "repo">>]))>>,
     <<YamlValue(PyDict([title |-> "Y", data_files |-> <<<<"nomatch.csv">>>>, order |-> <<2>>]))>>}

MdFiles == {<<"a", "y.md">>, <<"a", "d1.csv">>, <<"a", "img.png">>}

MdEnum == <<"a", "y.md", "d1.csv", "img.png", "s1.pdf", "s2.pdf">>

MdTools ==
    {[convert |-> "ok", pdftoppm |-> "ok"], [convert |-> "fail", pdftoppm |-> "raise"]}

InitMd ==
    /\ md \in [doc : [dir : {<<"a">>}, file : {"y.md"}, stem : {"y"},
                      content : [header : MdHeaders, body : SeqsUpTo(MdLines, MaxLines)]],
               section_slides : {NONE, "s2.pdf"},
               files  : {MdFiles \cup present :
                            present \in {{}, {<<"a", "s1.pdf">>, <<"s2.pdf">>}}},
               enum   : {MdEnum},
               tools  : MdTools,
               output : {EmptyDict}]
    /\ md_res = Idle
    /\ IdleNb /\ IdleZp /\ IdleIx /\ IdleRun

\* the call process_markdown(markdown_path, output_dir, config, section_slides)
MarkdownCall ==
    /\ md_res = Idle
    /\ md_res' = ProcessMarkdown(md.doc, md.output, md.files, md.enum,
                                 md.section_slides, md.tools)
    /\ UNCHANGED <<md, nbVars, zpVars, ixVars, runVars>>

NextMd == MarkdownCall

SpecMd == InitMd /\ [][NextMd]_vars

MdPublished == md_res.status = "ok"

\* the headers the entries of the written table of contents name, in order
MdTocHeaders ==
    LET toc == md_res.out["y.html"].toc IN [i \in 1..Len(toc) |-> toc[i].header]

\* the second-level headings of the source body, in order: the text of
\* the lines that start with '## '
RECURSIVE SecondLevelHeadings(_)
SecondLevelHeadings(lines) ==
    IF lines = <<>> THEN <<>>
    ELSE LET t == Head(lines).text
         IN  (IF Len(t) > 3 /\ t[1] = "#" /\ t[2] = "#" /\ t[3] = " "
              THEN <<[i \in 1..(Len(t) - 3) |-> t[i + 3]]>> ELSE <<>>)
             \o SecondLevelHeadings(Tail(lines))

MdHasLinks == Get(md.doc.content.header[1].value.value, "links", <<>>) # <<>>

\* C3 as stated: the entries of the table of contents correspond one-to-one
\* and in order with the second-level headings of the source body, for every
\* frontmatter.
C3_TocIsHeadingsOfBody ==
    MdPublished => MdTocHeaders = SecondLevelHeadings(md.doc.content.body)

\* C3 amended: when the frontmatter has no links the entries of the table of
\* contents are, one-to-one and in order, the second-level headings of the
\* source body; when it has links, one entry "Useful Links" comes first and
\* the entries after it are those headings.
C3_TocIsUsefulLinksThenHeadingsOfBody ==
    MdPublished =>
        MdTocHeaders = (IF MdHasLinks THEN <<UsefulLinks>> ELSE <<>>)
                       \o SecondLevelHeadings(md.doc.content.body)

\* a document with links published with a body of two different headings
\* around a line that is no second-level heading
C3_Witness ==
    /\ MdPublished /\ MdHasLinks
    /\ Len(MdTocHeaders) = 3
    /\ Len(md.doc.content.body) = 3
    /\ md.doc.content.body[2].text = <<"#", "#", "A">>
    /\ MdTocHeaders[2] # MdTocHeaders[3]

-----------------------------------------------------------------------------
(* The index builder on its own: create_index applied to the records main  *)
(* collects for a configuration, section by section in configuration order. *)

\* the folders that exist in the input tree
Folders == {"a", "b"}

\* the section entries a configuration may list
IdxEntries ==
    {PyStr("a"), PyStr("b"),
     PyDict([folder |-> "a"]),
     PyDict([folder |-> "a", title |-> "T"]),
     PyDict([folder |-> "b", title |-> "T", slides |-> "s2.pdf"]),
     PyDict([folder |-> "b", title |-> "M"]),
     PyDict([folder |-> "m", slides |-> "s2.pdf"])}

NotebookInfo(name, order) ==
    [name |-> name, title |-> name, description |-> "",
     exercise_file |-> name \o ".ipynb", answers_file |-> name \o "-ANSWERS.ipynb",
     data_file |-> NONE, section |-> NONE, order |-> order, links |-> <<>>,
     slides |-> NONE]

MarkdownInfo(name, order) ==
    [name |-> name, title |-> name, description |-> "",
     html_file |-> name \o ".html", data_file |-> NONE, section |-> NONE,
     type |-> "markdown", order |-> order, links |-> <<>>, slides |-> NONE]

\* the records the processors may return for the documents of a folder
IdxInfos ==
    {NotebookInfo("x", <<>>), NotebookInfo("y", <<>>), MarkdownInfo("xy", <<>>),
     NotebookInfo("x", <<2>>), MarkdownInfo("y", <<1>>), NotebookInfo("z", <<1>>)}

\* the records of one section as main stamps them; the processors have put
\* the section's slides into a record without slides of its own
RECURSIVE StampAll(_, _)
StampAll(infos, section) ==
    IF infos = <<>> THEN <<>>
    ELSE <<StampItem([Head(infos) EXCEPT !.slides = SectionSlides(section)], section)>>
         \o StampAll(Tail(infos), section)

RECURSIVE CollectItems(_, _)
CollectItems(sections_cfg, per_section) ==
    IF sections_cfg = <<>> THEN <<>>
    ELSE StampAll(Head(per_section), Head(sections_cfg))
         \o CollectItems(Tail(sections_cfg), Tail(per_section))

InitIdx ==
    /\ \E sections_cfg \in SeqsUpTo(IdxEntries, MaxSections) :
       \E per_section \in [1..Len(sections_cfg) ->
                              SeqsUpTo(IdxInfos, IF Len(sections_cfg) = 1 THEN MaxItems ELSE 1)] :
       \E present \in {{<<"s2.pdf">>}, {<<"b", "s2.pdf">>}} :
          /\ \A i \in 1..Len(sections_cfg) :
                SectionFolder(sections_cfg[i]) \notin Folders => per_section[i] = <<>>
          /\ CollectItems(sections_cfg, per_section) # <<>>
          /\ ix = [config    |-> [sections |-> sections_cfg],
                   notebooks |-> CollectItems(sections_cfg, per_section),
                   files     |-> present,
                   tools     |-> [convert |-> "ok", pdftoppm |-> "ok"],
                   output    |-> EmptyDict]
    /\ ix_res = Idle
    /\ IdleNb /\ IdleMd /\ IdleZp /\ IdleRun

\* the call create_index(processed_items, config, output_dir)
IndexCall ==
    /\ ix_res = Idle
    /\ ix_res' = CreateIndex(ix.notebooks, ix.config, ix.output, ix.files, ix.tools)
    /\ UNCHANGED <<ix, nbVars, mdVars, zpVars, runVars>>

NextIdx == IndexCall

SpecIdx == InitIdx /\ [][NextIdx]_vars

IdxWritten == ix_res.status = "ok"

IdxBlocks == ix_res.out["index.html"].blocks

\* the positions of the section headings of the index
IdxHeadings == {h \in 1..Len(IdxBlocks) : IdxBlocks[h].kind = "section"}

\* the records rendered under the heading at position h, in order
IdxItemsUnder(h) ==
    LET last == CHOOSE l \in h..Len(IdxBlocks) :
                    /\ \A k \in (h + 1)..l : IdxBlocks[k].kind = "item"
                    /\ l = Len(IdxBlocks) \/ IdxBlocks[l + 1].kind = "section"
    IN  [k \in 1..(last - h) |-> IdxBlocks[h + k].of]

\* the records of the input that belong to the section of the heading at h
IdxInputOf(h) == ItemsOf(ix.notebooks, IdxBlocks[h].title)

OrdersOf(items) == {items[k].order : k \in 1..Len(items)} \ {<<>>}

WithOrder(items, order) ==
    LET Has(item) == item.order = order IN SelectSeq(items, Has)

\* C4: in every section of the index, items with an order come before items
\* without one, in ascending order of that value, items of equal order in
\* input order; items without an order come in descending order of name.
C4_ItemsSortedWithinSection ==
    IdxWritten =>
        \A h \in IdxHeadings :
            LET listed == IdxItemsUnder(h) IN
            /\ Len(listed) = Len(IdxInputOf(h))
            /\ \A p, q \in 1..Len(listed) :
                  p < q =>
                     /\ listed[p].order = <<>> => listed[q].order = <<>>
                     /\ listed[p].order # <<>> /\ listed[q].order # <<>>
                           => listed[p].order[1] <= listed[q].order[1]
                     /\ listed[p].order = <<>> /\ listed[q].order = <<>>
                           => ~ StrLess(listed[p].name, listed[q].name)
            /\ \A order \in OrdersOf(IdxInputOf(h)) :
                  WithOrder(listed, order) = WithOrder(IdxInputOf(h), order)

\* a section whose records came as two without order, names ascending, then
\* one with an order, rendered with the ordered one first and the other two
\* in descending order of name
C4_Witness ==
    /\ IdxWritten
    /\ \E h \in IdxHeadings :
          /\ Len(IdxItemsUnder(h)) = 3
          /\ IdxInputOf(h)[1].order = <<>> /\ IdxInputOf(h)[2].order = <<>>
          /\ StrLess(IdxInputOf(h)[1].name, IdxInputOf(h)[2].name)
          /\ IdxInputOf(h)[3].order # <<>>
          /\ IdxItemsUnder(h) = <<IdxInputOf(h)[3], IdxInputOf(h)[2], IdxInputOf(h)[1]>>

IdxSectionsCfg == ix.config.sections

\* the first heading of the index with this title, 0 when there is none
IdxFirstHeading(title) ==
    IF \E h \in IdxHeadings : IdxBlocks[h].title = title
    THEN CHOOSE h \in IdxHeadings :
            /\ IdxBlocks[h].title = title
            /\ \A g \in IdxHeadings : IdxBlocks[g].title = title => h <= g
    ELSE 0

\* C5 as stated: the sections that have a published item appear in the
\* index in the order in which the configuration lists them, whatever form
\* their entries take (stated for configurations whose titles are distinct).
C5_SectionsInConfigurationOrder ==
    IdxWritten =>
        \A i, j \in 1..Len(IdxSectionsCfg) :
            LET ti == SectionTitleOf(IdxSectionsCfg[i])
                tj == SectionTitleOf(IdxSectionsCfg[j])
            IN  (/\ i < j
                 /\ \A k, l \in 1..Len(IdxSectionsCfg) :
                       k # l => SectionTitleOf(IdxSectionsCfg[k]) # SectionTitleOf(IdxSectionsCfg[l])
                 /\ ItemsOf(ix.notebooks, ti) # <<>>
                 /\ ItemsOf(ix.notebooks, tj) # <<>>)
                => /\ IdxFirstHeading(ti) > 0
                   /\ IdxFirstHeading(ti) < IdxFirstHeading(tj)

-----------------------------------------------------------------------------
(* The asset bundler on its own: create_data_zip applied to a document     *)
(* directory "a" of a small tree, for every list of declared patterns.     *)

ZipBaseDir == <<"a">>

\* the files a tree may hold: in the document directory, below it, beside it
\* (the project root) and outside the project
ZipTreeFiles ==
    {<<"a", "d1.csv">>, <<"a", "d2.csv">>, <<"a", "sub", "d3.csv">>,
     <<"r.csv">>, <<"/", "abs", "x.csv">>}

\* the patterns a document may declare: a plain name, a wildcard, a second
\* spelling of a plain name, a name that is absent, a file beside the
\* directory, an absolute path
ZipPatterns ==
    {<<"d1.csv">>, <<"*">>, <<"sub", "*">>, <<"sub", "..", "d1.csv">>,
     <<"nomatch.csv">>, <<"..", "r.csv">>, <<"/", "abs", "x.csv">>}

\* the orders in which the file system may enumerate the names
ZipEnums ==
    {e \o <<"d3.csv", "r.csv", "a", "abs", "x.csv">> :
        e \in {<<"d1.csv", "d2.csv", "sub">>, <<"d2.csv", "d1.csv", "sub">>,
               <<"sub", "d2.csv", "d1.csv">>, <<"d1.csv", "sub", "d2.csv">>}}

InitZip ==
    /\ zp \in [data_patterns : SeqsUpTo(ZipPatterns, MaxPatterns),
               base_dir      : {ZipBaseDir},
               files         : {ZipTreeFiles \ gone : gone \in SUBSET {<<"a", "d2.csv">>, <<"a", "sub", "d3.csv">>, <<"r.csv">>}},
               enum          : ZipEnums]
    /\ zp_res = Idle
    /\ IdleNb /\ IdleMd /\ IdleIx /\ IdleRun

\* the call create_data_zip(data_patterns, zip_path, base_dir)
ZipCall ==
    /\ zp # Idle /\ zp_res = Idle
    /\ zp_res' = CreateDataZip(zp.files, zp.enum, zp.data_patterns, zp.base_dir)
    /\ UNCHANGED <<zp, nbVars, mdVars, ixVars, runVars>>

NextZip == ZipCall

SpecZip == InitZip /\ [][NextZip]_vars

\* where the project root lies, for paths that leave it
ProjectRoot == <<"/", "proj">>

Absolute(p) == IF p # <<>> /\ p[1] = "/" THEN p ELSE ProjectRoot \o p

RECURSIVE CommonLen(_, _)
CommonLen(p, q) ==
    IF p = <<>> \/ q = <<>> \/ Head(p) # Head(q) THEN 0
    ELSE 1 + CommonLen(Tail(p), Tail(q))

\* the path of file f taken from directory d
RelativePath(f, d) ==
    LET af == Absolute(f)
        ad == Absolute(d)
        k  == CommonLen(af, ad)
    IN  [i \in 1..(Len(ad) - k) |-> ".."] \o SubSeq(af, k + 1, Len(af))

ZipDone == zp_res.status = "done"

\* the files matched by the i-th declared pattern
ZipMatched(i) ==
    LET g == Glob(zp.files, zp.enum, Join(zp.base_dir, zp.data_patterns[i]))
    IN  {Norm(g[k]) : k \in 1..Len(g)}

ZipHolds(f, name) ==
    \E k \in 1..Len(zp_res.members) :
        zp_res.members[k].file = f /\ zp_res.members[k].name = name

IsRelativePattern(pattern) == pattern = <<>> \/ pattern[1] # "/"

\* C6 as stated: every file matched by a declared pattern is in the archive
\* under its path relative to the document's directory.
C6_EveryMatchUnderRelativePath ==
    ZipDone =>
        \A i \in 1..Len(zp.data_patterns) : \A f \in ZipMatched(i) :
            ZipHolds(f, RelativePath(f, zp.base_dir))

\* C6 amended: every file matched by a declared pattern that is a relative
\* path is in the archive under its path relative to the document's
\* directory; a file matched by an absolute pattern is in the archive under
\* its full path without the leading separator.
C6_RelativePatternsUnderRelativePath ==
    ZipDone =>
        \A i \in 1..Len(zp.data_patterns) : \A f \in ZipMatched(i) :
            IF IsRelativePattern(zp.data_patterns[i])
            THEN ZipHolds(f, RelativePath(f, zp.base_dir))
            ELSE ZipHolds(f, Tail(f))

\* a call whose patterns matched a file in the directory, one below it, one
\* beside it, through a wildcard and through a plain name
C6_Witness ==
    /\ ZipDone
    /\ \E i, j \in 1..Len(zp.data_patterns) :
          /\ zp.data_patterns[i] = <<"sub", "*">> /\ ZipMatched(i) # {}
          /\ zp.data_patterns[j] = <<"..", "r.csv">> /\ ZipMatched(j) # {}
          /\ ZipHolds(<<"r.csv">>, <<"..", "r.csv">>)

\* C7 as stated: a file matched more than once is written into the archive
\* at most once, and the reported count is the number of distinct files in
\* the archive.
C7_DuplicatesDeduplicated ==
    ZipDone =>
        /\ \A i, j \in 1..Len(zp_res.members) :
              i # j => zp_res.members[i].file # zp_res.members[j].file
        /\ zp_res.reported =
              Cardinality({zp_res.members[k].file : k \in 1..Len(zp_res.members)})

-----------------------------------------------------------------------------
(* main: a run over an input tree.  pc.at is the place of the run:         *)
(* "start", "cleaned", "section" (the head of the loop over the sections,  *)
(* pc.i the next entry), "notebooks" and "markdown" (the two loops over    *)
(* the files of a folder, todo the files not yet enumerated), "index",     *)
(* "done" (main returned) and "aborted" (the process ended inside a call). *)
(* log records what the run did, in order.  The configuration of a run     *)
(* holds github_repo, which create_index reads without a default.          *)

RunCells ==
    <<MarkdownCell(EmptyDict, <<[text |-> "# Intro"], [link |-> "img.png"]>>),
      CodeCell([tags |-> <<"solution">>], <<[text |-> "answer()"]>>, <<"42">>)>>

RunBody == <<Line(<<"#", "#", " ", "A">>), [text |-> <<"b">>, links |-> <<"img.png">>]>>

NotebookDoc(dir, stem, workshop) ==
    [kind |-> "ipynb", dir |-> <<dir>>, file |-> stem \o ".ipynb", stem |-> stem,
     cells |-> RunCells, workshop |-> workshop]

MarkdownDoc(dir, stem, header) ==
    [kind |-> "md", dir |-> <<dir>>, file |-> stem \o ".md", stem |-> stem,
     content |-> [header |-> header, body |-> RunBody]]

\* the workshop metadata of the notebooks of a tree
RunWorkshops ==
    {PyDict(EmptyDict), PyOther(TRUE), PyDict([title |-> "X"]),
     PyDict([slides |-> "s1.pdf"]),
     PyDict([data_files |-> <<<<"nomatch.csv">>, <<"d1.csv">>>>])}

\* the frontmatter blocks of the markdown documents of a tree
RunHeaders ==
    {<<>>, <<YamlInvalid>>, <<YamlValue(PyOther(FALSE))>>, <<YamlValue(PyOther(TRUE))>>,
     <<YamlValue(PyDict([title |-> "Y"]))>>,
     <<YamlValue(PyDict([slides |-> "s1.pdf"]))>>,
     <<YamlValue(PyDict([data_files |-> <<<<"nomatch.csv">>>>, links |-> <<"docs">>]))>>}

\* the documents a tree may hold: at most a/x.ipynb, a/y.md and b/z.ipynb
RunDocSets ==
    {ax \cup ay \cup bz :
        ax \in {{}} \cup {{NotebookDoc("a", "x", w)} : w \in RunWorkshops},
        ay \in {{}} \cup {{MarkdownDoc("a", "y", h)} : h \in RunHeaders},
        bz \in {{}, {NotebookDoc("b", "z", PyDict([title |-> "Z"]))},
                {NotebookDoc("b", "z", PyDict([slides |-> "s1.pdf"]))}}}

\* the files every tree holds beside its documents, and the slide files it
\* may hold
RunFiles == {<<"a", "d1.csv">>, <<"a", "img.png">>, <<"b", "readme.txt">>}

RunSlideFiles == {<<"a", "s1.pdf">>, <<"a", "s2.pdf">>, <<"s2.pdf">>}

RunEnum == <<"a", "b", "x.ipynb", "y.md", "z.ipynb", "d1.csv", "img.png",
             "readme.txt", "s1.pdf", "s2.pdf">>

\* the entries the section list of a run may hold
RunEntries ==
    {PyStr("b"),
     PyDict([folder |-> "a", title |-> "T"]),
     PyDict([folder |-> "a", slides |-> "s2.pdf"]),
     PyDict([folder |-> "b", title |-> "T", slides |-> "s2.pdf"]),
     PyDict([folder |-> "m", slides |-> "s2.pdf"])}

DocPath(d) == Append(d.dir, d.file)

Init ==
    /\ config \in [sections : SeqsUpTo(RunEntries, MaxSections)]
    /\ \E docs \in RunDocSets, present \in SUBSET RunSlideFiles :
          tree = [docs  |-> docs,
                  files |-> RunFiles \cup present \cup {DocPath(d) : d \in docs},
                  enum  |-> RunEnum,
                  tools |-> [convert |-> "ok", pdftoppm |-> "ok"]]
    /\ out = [x \in {"index.html"} |-> [kind |-> "stale", from |-> <<"previous run">>]]
    /\ processed_items = <<>>
    /\ pc = [at |-> "start", i |-> 0]
    /\ todo = {}
    /\ log = <<>>
    /\ exit_status = "running"
    /\ IdleNb /\ IdleMd /\ IdleZp /\ IdleIx

funVars == <<nbVars, mdVars, zpVars, ixVars>>

Sections == Get(config, "sections", <<>>)

\* Path(folder).glob('*.ipynb') and Path(folder).glob('*.md'); no folder of
\* a tree has '.ipynb_checkpoints' in its name, so no notebook is passed over
DocsOf(folder, kind) == {d \in tree.docs : d.dir = <<folder>> /\ d.kind = kind}

\* Rmtree leaving the files of the previous run in place
RmtreeKeepingFiles(output) == output

\* the output directory after shutil.rmtree(output_dir) and output_dir.mkdir()
Rmtree(output) == EmptyDict

\* NextSection passing over one entry
NextSectionSkippingOne(i) == i + 2

\* the position of the entry "for section in sections" takes after entry i
NextSection(i) == i + 1

CleanOutput ==
    /\ pc.at = "start"
    /\ out' = Rmtree(out)
    /\ log' = Append(log, [event |-> "clean"])
    /\ pc' = [at |-> "cleaned", i |-> 0]
    /\ UNCHANGED <<config, tree, processed_items, todo, exit_status, funVars>>

\* "if not sections: ... return"
NoSections ==
    /\ pc.at = "cleaned" /\ Sections = <<>>
    /\ pc' = [at |-> "done", i |-> 0]
    /\ exit_status' = "0"
    /\ UNCHANGED <<config, tree, out, processed_items, todo, log, funVars>>

BeginSections ==
    /\ pc.at = "cleaned" /\ Sections # <<>>
    /\ pc' = [at |-> "section", i |-> 1]
    /\ UNCHANGED <<config, tree, out, processed_items, todo, log, exit_status, funVars>>

FolderFound(section) ==
    Truthy(SectionFolder(section)) /\ Exists(tree.files, <<SectionFolder(section)>>)

\* "if not folder or not Path(folder).exists(): ... continue"
SkipSection ==
    /\ pc.at = "section" /\ pc.i <= Len(Sections)
    /\ ~ FolderFound(Sections[pc.i])
    /\ log' = Append(log, [event |-> "no folder", section |-> pc.i])
    /\ pc' = [pc EXCEPT !.i = NextSection(@)]
    /\ UNCHANGED <<config, tree, out, processed_items, todo, exit_status, funVars>>

EnterSection ==
    /\ pc.at = "section" /\ pc.i <= Len(Sections)
    /\ FolderFound(Sections[pc.i])
    /\ todo' = DocsOf(SectionFolder(Sections[pc.i]), "ipynb")
    /\ log' = Append(log, [event |-> "section", section |-> pc.i])
    /\ pc' = [pc EXCEPT !.at = "notebooks"]
    /\ UNCHANGED <<config, tree, out, processed_items, exit_status, funVars>>

\* what main does with the result r of a processor for document d
Collect(d, r) ==
    /\ out' = r.out
    /\ log' = Append(log, [event |-> "document", doc |-> DocPath(d),
                           section |-> pc.i, status |-> r.status])
    /\ todo' = todo \ {d}
    /\ IF r.status = "ok"
       THEN /\ processed_items' = Append(processed_items, StampItem(r.info, Sections[pc.i]))
            /\ UNCHANGED <<pc, exit_status>>
       ELSE IF r.status = "skip"
       THEN UNCHANGED <<processed_items, pc, exit_status>>
       ELSE /\ pc' = [pc EXCEPT !.at = "aborted"]
            /\ exit_status' = "1"
            /\ UNCHANGED processed_items
    /\ UNCHANGED <<config, tree, funVars>>

\* one turn of "for notebook_path in Path(folder).glob('*.ipynb')"
NotebookStep ==
    /\ pc.at = "notebooks"
    /\ \E d \in todo :
          Collect(d, ProcessNotebook(d, out, tree.files, tree.enum,
                                     SectionSlides(Sections[pc.i])))

NotebooksDone ==
    /\ pc.at = "notebooks" /\ todo = {}
    /\ todo' = DocsOf(SectionFolder(Sections[pc.i]), "md")
    /\ pc' = [pc EXCEPT !.at = "markdown"]
    /\ UNCHANGED <<config, tree, out, processed_items, log, exit_status, funVars>>

\* one turn of "for markdown_path in Path(folder).glob('*.md')"
MarkdownStep ==
    /\ pc.at = "markdown"
    /\ \E d \in todo :
          Collect(d, ProcessMarkdown(d, out, tree.files, tree.enum,
                                     SectionSlides(Sections[pc.i]), tree.tools))

MarkdownDone ==
    /\ pc.at = "markdown" /\ todo = {}
    /\ pc' = [at |-> "section", i |-> NextSection(pc.i)]
    /\ UNCHANGED <<config, tree, out, processed_items, todo, log, exit_status, funVars>>

SectionsDone ==
    /\ pc.at = "section" /\ pc.i > Len(Sections)
    /\ pc' = [at |-> "index", i |-> 0]
    /\ UNCHANGED <<config, tree, out, processed_items, todo, log, exit_status, funVars>>

\* "if processed_items: create_index(processed_items, config, output_dir)"
BuildIndex ==
    /\ pc.at = "index" /\ processed_items # <<>>
    /\ LET r == CreateIndex(processed_items, config, out, tree.files, tree.tools)
       IN  /\ out' = r.out
           /\ log' = Append(log, [event |-> "index", status |-> r.status])
           /\ pc' = [at |-> IF r.status = "ok" THEN "done" ELSE "aborted", i |-> 0]
           /\ exit_status' = IF r.status = "ok" THEN "0" ELSE "1"
    /\ UNCHANGED <<config, tree, processed_items, todo, funVars>>

NoIndex ==
    /\ pc.at = "index" /\ processed_items = <<>>
    /\ pc' = [at |-> "done", i |-> 0]
    /\ exit_status' = "0"
    /\ UNCHANGED <<config, tree, out, processed_items, todo, log, funVars>>

Next ==
    \/ CleanOutput \/ NoSections \/ BeginSections
    \/ SkipSection \/ EnterSection
    \/ NotebookStep \/ NotebooksDone
    \/ MarkdownStep \/ MarkdownDone
    \/ SectionsDone \/ BuildIndex \/ NoIndex

Spec == Init /\ [][Next]_vars

Terminated == exit_status # "running"

\* the positions in log of the documents the run handed to a processor
DocEvents == {k \in DOMAIN log : log[k].event = "document"}

DocOf(k) == CHOOSE d \in tree.docs : DocPath(d) = log[k].doc

\* the metadata block of a document as parsed: the workshop entry of a
\* notebook, the frontmatter of a markdown document (<<>> when it has no
\* block or the block is not YAML)
Declared(d) ==
    IF d.kind = "ipynb" THEN <<d.workshop>>
    ELSE IF d.content.header = <<>> \/ d.content.header[1].yaml = "invalid" THEN <<>>
    ELSE <<d.content.header[1].value>>

IsMapping(d) == Declared(d) # <<>> /\ Declared(d)[1].type = "dict"

\* the data-file patterns a document declares
DataPatterns(d) == IF IsMapping(d) THEN Get(Declared(d)[1].value, "data_files", <<>>) ELSE <<>>

Matches(d, pattern) ==
    LET g == Glob(tree.files, tree.enum, Join(d.dir, pattern))
    IN  {Norm(g[j]) : j \in 1..Len(g)}

DeclaresUnmatched(d) == \E j \in DOMAIN DataPatterns(d) : Matches(d, DataPatterns(d)[j]) = {}

\* the slide file that applies to document d of the section entry: its own,
\* or else the entry's
AppliedSlides(d, section) ==
    LET own == Get(Declared(d)[1].value, "slides", NONE)
        of_section == IF section.type = "dict" /\ "slides" \in DOMAIN section.value
                      THEN section.value.slides ELSE NONE
    IN  IF own # NONE /\ own # "" THEN own ELSE of_section

\* a slide file found in neither the directory dir nor the project root
SlidesMissing(slide_file, dir) ==
    /\ slide_file # NONE /\ slide_file # ""
    /\ ~ Exists(tree.files, Append(dir, slide_file))
    /\ ~ Exists(tree.files, <<slide_file>>)

\* the files the processors write for document d
OutputsOf(d) ==
    IF d.kind = "ipynb" THEN {d.stem \o ".ipynb", d.stem \o "-ANSWERS.ipynb"}
    ELSE {d.stem \o ".html"}

\* every name of the output directory that was written from document d
WrittenFrom(d) == {n \in DOMAIN out : out[n].from = DocPath(d)}

HasRecord(d) == \E j \in DOMAIN processed_items : processed_items[j].name = d.stem

\* the run handed every document of every section folder it found to a
\* processor
AllDocumentsProcessed ==
    \A i \in DOMAIN Sections :
        FolderFound(Sections[i]) =>
            \A d \in tree.docs :
                d.dir = <<SectionFolder(Sections[i])>> =>
                    \E k \in DocEvents : log[k].doc = DocPath(d) /\ log[k].section = i

\* C8: a data-file pattern that matches nothing does not stop anything.  For
\* every document the run processed that declares such a pattern: the
\* archive is written and holds exactly the files the other patterns match;
\* the document is published with its outputs and its index record, unless
\* its slide file is missing (the only reason for the processor to stop);
\* and a run that ends with status 0 has processed every document of every
\* section folder, a run that ends non-zero ended on a missing slide file or
\* on metadata that is not a mapping.
C8_UnmatchedPatternIsNotFatal ==
    /\ \A k \in DocEvents :
          LET d   == DocOf(k)
              zip == d.stem \o "-data.zip"
          IN  DeclaresUnmatched(d) =>
                /\ log[k].status \in {"ok", "exit"}
                /\ log[k].status = "exit" =>
                      SlidesMissing(AppliedSlides(d, Sections[log[k].section]), d.dir)
                /\ zip \in DOMAIN out
                /\ out[zip].archive.status = "done"
                /\ {out[zip].archive.members[j].file : j \in DOMAIN out[zip].archive.members}
                      = UNION {Matches(d, DataPatterns(d)[j]) : j \in DOMAIN DataPatterns(d)}
                /\ log[k].status = "ok" =>
                      /\ OutputsOf(d) \subseteq DOMAIN out
                      /\ \E j \in DOMAIN processed_items :
                            /\ processed_items[j].name = d.stem
                            /\ processed_items[j].data_file = zip
    /\ exit_status = "0" => AllDocumentsProcessed
    /\ exit_status = "1" =>
          LET e == log[Len(log)]
          IN  \/ e.event = "index" /\ e.status = "exit"
              \/ /\ e.event = "document"
                 /\ \/ ~ IsMapping(DocOf(Len(log)))
                    \/ SlidesMissing(AppliedSlides(DocOf(Len(log)), Sections[e.section]),
                                     DocOf(Len(log)).dir)

\* a run that ended with status 0 and an index, in which a notebook that
\* declares an unmatched pattern beside a matched one was published with an
\* archive of the one matched file, and a document was processed after it
C8_Witness ==
    /\ exit_status = "0" /\ "index.html" \in DOMAIN out
    /\ \E k \in DocEvents :
          /\ DocOf(k).kind = "ipynb" /\ DeclaresUnmatched(DocOf(k))
          /\ log[k].status = "ok"
          /\ Len(out[DocOf(k).stem \o "-data.zip"].archive.members) = 1
          /\ \E k2 \in DocEvents : k2 > k /\ log[k2].status = "ok"

\* a document without metadata: a notebook whose workshop entry is absent or
\* empty, a markdown document without a frontmatter block or with one that
\* is not YAML, is empty, or is not a mapping
WithoutMetadata(d) ==
    IF d.kind = "ipynb" THEN Declared(d)[1] = PyDict(EmptyDict)
    ELSE ~ IsMapping(d) \/ Declared(d)[1].value = EmptyDict

\* C9 as stated: every document without metadata that the run comes to is
\* skipped: nothing is written from it, it has no record, the run goes on
\* and, when it ends with an index, the index has no entry for it.
C9_DocumentsWithoutMetadataSkipped ==
    \A k \in DocEvents :
        LET d == DocOf(k)
        IN  WithoutMetadata(d) =>
              /\ log[k].status = "skip"
              /\ WrittenFrom(d) = {}
              /\ ~ HasRecord(d)
              /\ ~ (Terminated /\ pc.at = "aborted" /\ k = Len(log))
              /\ "index.html" \in DOMAIN out =>
                    \A b \in DOMAIN out["index.html"].blocks :
                        out["index.html"].blocks[b].kind = "item" =>
                            out["index.html"].blocks[b].of.name # d.stem

\* the documents of the section folders the run found that are not skipped
Unskipped(i) ==
    {d \in tree.docs : /\ d.dir = <<SectionFolder(Sections[i])>>
                       /\ Declared(d) # <<>>
                       /\ ~ Falsy(Declared(d)[1])}

\* C10 as stated: a run ends non-zero whenever a slide file declared by a
\* section entry (whatever becomes of its folder) or by a document of a
\* section folder is in neither of its two candidate locations.
C10_AnyMissingDeclaredSlideAborts ==
    Terminated =>
        \A i \in DOMAIN Sections :
            /\ (/\ Sections[i].type = "dict"
                /\ "slides" \in DOMAIN Sections[i].value
                /\ SlidesMissing(Sections[i].value.slides,
                                 IF "folder" \in DOMAIN Sections[i].value
                                 THEN <<Sections[i].value.folder>> ELSE <<>>))
               => exit_status = "1"
            /\ FolderFound(Sections[i]) =>
                  \A d \in Unskipped(i) :
                      (IsMapping(d) /\ SlidesMissing(Get(Declared(d)[1].value, "slides", NONE), d.dir))
                          => exit_status = "1"

\* C10: a run ends non-zero whenever the slide file that applies to a
\* document it does not skip (the document's own, or else its section
\* entry's) is neither in the document's directory nor under its path from
\* the project root.
C10_MissingAppliedSlideAborts ==
    Terminated =>
        \A i \in DOMAIN Sections :
            FolderFound(Sections[i]) =>
                \A d \in Unskipped(i) :
                    (IsMapping(d) /\ SlidesMissing(AppliedSlides(d, Sections[i]), d.dir))
                        => exit_status = "1"

\* a run that published a document and then ended non-zero on a document
\* that declares no slide file, in a section whose slide file is in neither
\* place
C10_Witness ==
    /\ exit_status = "1"
    /\ Len(processed_items) > 0
    /\ LET e == log[Len(log)]
       IN  /\ e.event = "document" /\ e.status = "exit"
           /\ Get(Declared(DocOf(Len(log)))[1].value, "slides", NONE) = NONE
           /\ SlidesMissing(Sections[e.section].value.slides, DocOf(Len(log)).dir)

\* the slide file a section entry declares, NONE when it declares none
SlidesOfEntry(section) ==
    IF section.type = "dict" /\ "slides" \in DOMAIN section.value
    THEN section.value.slides ELSE NONE

\* the slide file a document declares itself, NONE when it declares none
OwnSlides(d) == IF IsMapping(d) THEN Get(Declared(d)[1].value, "slides", NONE) ELSE NONE

\* a slide file that is in the directory dir or under its path from the
\* project root
Locatable(slide_file, dir) ==
    Exists(tree.files, Append(dir, slide_file)) \/ Exists(tree.files, <<slide_file>>)

\* every slide file a section entry or a document declares is in one of the
\* two places the document processors look in: the directory of the
\* documents that declare or inherit it, or its path from the project root
DeclaredSlidesLocatable ==
    /\ \A i \in DOMAIN Sections :
          SlidesOfEntry(Sections[i]) \notin {NONE, ""} =>
              Locatable(SlidesOfEntry(Sections[i]), <<SectionFolder(Sections[i])>>)
    /\ \A d \in tree.docs :
          OwnSlides(d) \notin {NONE, ""} => Locatable(OwnSlides(d), d.dir)

\* every document has no metadata, empty metadata, or a mapping
MetadataWellFormed ==
    \A d \in tree.docs :
        Declared(d) = <<>> \/ IsMapping(d) \/ Falsy(Declared(d)[1])

\* C11 as stated, for the runs whose documents all have well-formed
\* metadata: when every declared slide file is in one of the two places the
\* document processors look in, the run ends with status 0.
C11_LocatableSlidesExitZero ==
    (Terminated /\ MetadataWellFormed /\ DeclaredSlidesLocatable) => exit_status = "0"

-----------------------------------------------------------------------------
(* Runs of main over trees whose section folders hold documents that share *)
(* a stem, an order value or an output name, under two orders of           *)
(* enumeration of the names of a directory.                                *)

Reverse(seq) == [i \in 1..Len(seq) |-> seq[Len(seq) + 1 - i]]

\* the documents such a tree may hold
TwinDocs ==
    {NotebookDoc("a", "x", PyDict([order |-> <<1>>, data_files |-> <<<<"data", "*">>>>])),
     NotebookDoc("a", "w", PyDict([order |-> <<1>>])),
     NotebookDoc("a", "x-ANSWERS", PyDict([title |-> "K"])),
     NotebookDoc("b", "x", PyDict([title |-> "Z"])),
     NotebookDoc("b", "v", PyDict([slides |-> "s1.pdf"])),
     MarkdownDoc("a", "x", <<YamlValue(PyDict([title |-> "Y"]))>>),
     MarkdownDoc("a", "index", <<YamlValue(PyDict([title |-> "I"]))>>)}

TwinFiles ==
    {<<"a", "data", "d1.csv">>, <<"a", "data", "d2.csv">>, <<"a", "img.png">>,
     <<"b", "img.png">>, <<"b", "s2.pdf">>}

TwinEnum == <<"a", "b", "data", "d1.csv", "d2.csv", "img.png", "index.md", "s2.pdf",
              "v.ipynb", "w.ipynb", "x.ipynb", "x-ANSWERS.ipynb", "x.md">>

TwinEntries ==
    {PyDict([folder |-> "a"]), PyDict([folder |-> "b"]),
     PyDict([folder |-> "b", slides |-> "s2.pdf"]), PyStr("m")}

InitTwins ==
    /\ config \in [sections : SeqsUpTo(TwinEntries, MaxSections)]
    /\ \E docs \in SUBSET TwinDocs, enum \in {TwinEnum, Reverse(TwinEnum)} :
          tree = [docs  |-> docs,
                  files |-> TwinFiles \cup {DocPath(d) : d \in docs},
                  enum  |-> enum,
                  tools |-> [convert |-> "ok", pdftoppm |-> "ok"]]
    /\ out = [x \in {"index.html"} |-> [kind |-> "stale", from |-> <<"previous run">>]]
    /\ processed_items = <<>>
    /\ pc = [at |-> "start", i |-> 0]
    /\ todo = {}
    /\ log = <<>>
    /\ exit_status = "running"
    /\ IdleNb /\ IdleMd /\ IdleZp /\ IdleIx

SpecTwins == InitTwins /\ [][Next]_vars

\* the output file of document d named n: written, and written from d
OwnOutput(d, n) == n \in DOMAIN out /\ out[n].from = DocPath(d)

\* the documents of the section folders the run found that are not skipped
Published ==
    UNION {Unskipped(i) : i \in {j \in DOMAIN Sections : FolderFound(Sections[j])}}

\* C12 as stated: after a run that completes, every output file of every
\* document that was not skipped is in the output directory as that
\* document's processor wrote it, whatever other documents the run
\* processed.
C12_EveryDocumentKeepsItsOutputs ==
    exit_status = "0" =>
        \A d \in Published : \A n \in OutputsOf(d) : OwnOutput(d, n)

\* the elements of a set in one fixed order
RECURSIVE SeqOf(_)
SeqOf(S) ==
    IF S = {} THEN <<>>
    ELSE LET x == CHOOSE y \in S : TRUE IN <<x>> \o SeqOf(S \ {x})

\* main as a function of its input: the loop over the files of one kind of
\* a section folder, taken in the order docs
RECURSIVE MainDocuments(_, _, _, _)
MainDocuments(r, docs, section, tr) ==
    IF docs = <<>> \/ r.status # "ok" THEN r
    ELSE LET d   == Head(docs)
             res == IF d.kind = "ipynb"
                    THEN ProcessNotebook(d, r.out, tr.files, tr.enum, SectionSlides(section))
                    ELSE ProcessMarkdown(d, r.out, tr.files, tr.enum,
                                         SectionSlides(section), tr.tools)
         IN  MainDocuments([status |-> IF res.status \in {"ok", "skip"} THEN "ok" ELSE "aborted",
                            out    |-> res.out,
                            items  |-> IF res.status = "ok"
                                       THEN Append(r.items, StampItem(res.info, section))
                                       ELSE r.items],
                           Tail(docs), section, tr)

\* the loop over the section entries
RECURSIVE MainSections(_, _, _)
MainSections(r, sections, tr) ==
    IF sections = <<>> \/ r.status # "ok" THEN r
    ELSE LET section == Head(sections)
             folder  == SectionFolder(section)
             found   == Truthy(folder) /\ Exists(tr.files, <<folder>>)
             of_kind(kind) == SeqOf({d \in tr.docs : d.dir = <<folder>> /\ d.kind = kind})
             r1      == MainDocuments(r, of_kind("ipynb"), section, tr)
             r2      == MainDocuments(r1, of_kind("md"), section, tr)
         IN  MainSections(IF found THEN r2 ELSE r, Tail(sections), tr)

\* the output directory main leaves for configuration cfg and input tree tr
Main(cfg, tr) ==
    LET sections == Get(cfg, "sections", <<>>)
        r == MainSections([status |-> "ok", out |-> EmptyDict, items |-> <<>>], sections, tr)
    IN  IF sections = <<>> THEN EmptyDict
        ELSE IF r.status # "ok" \/ r.items = <<>> THEN r.out
        ELSE CreateIndex(r.items, cfg, r.out, tr.files, tr.tools).out

\* C13 as stated: the output directory a run leaves is the one main leaves
\* for the same configuration and the same files under one fixed order of
\* enumeration, whatever the order in which this run met the names of the
\* directories.
C13_OutputIndependentOfEnumeration ==
    Terminated => out = Main(config, [tree EXCEPT !.enum = TwinEnum])

\* the positions in log where the run came to a section entry, and where
\* it invoked the index builder
SectionEvents == {k \in DOMAIN log : log[k].event \in {"section", "no folder"}}

IndexEvents == {k \in DOMAIN log : log[k].event = "index"}

\* the output directory is cleaned before anything else, and nothing of
\* the previous run is left afterwards
CleanedFirst ==
    /\ log # <<>> => log[1].event = "clean"
    /\ pc.at # "start" => \A n \in DOMAIN out : out[n].kind # "stale"

\* the run comes to the section entries in configuration order, every
\* document is processed under the entry the run is at, and a run that
\* returns has come to every entry
SectionsInConfigurationOrder ==
    /\ \A k \in SectionEvents :
          log[k].section = Cardinality({j \in SectionEvents : j <= k})
    /\ \A k \in DocEvents :
          \E j \in SectionEvents :
              /\ j < k /\ log[j].event = "section" /\ log[j].section = log[k].section
              /\ \A l \in SectionEvents : l <= j \/ l > k
    /\ exit_status = "0" => Cardinality(SectionEvents) = Len(Sections)

\* the index builder is invoked at most once, and after everything else
IndexLast ==
    /\ Cardinality(IndexEvents) <= 1
    /\ \A k \in IndexEvents : k = Len(log)

\* C14 as stated: the output directory is cleaned first, the sections are
\* processed in configuration order, and every run that returns has invoked
\* the index builder exactly once, after the last document.
C14_IndexBuiltOnceInEveryRun ==
    /\ CleanedFirst /\ SectionsInConfigurationOrder /\ IndexLast
    /\ exit_status = "0" => Cardinality(IndexEvents) = 1

\* C14: the output directory is cleaned first, the sections are processed
\* in configuration order, and a run that returns has invoked the index
\* builder exactly once, after the last document, when it published a
\* document, and not at all (leaving no index) when it published none.
C14_IndexBuiltOnceWhenSomethingPublished ==
    /\ CleanedFirst /\ SectionsInConfigurationOrder /\ IndexLast
    /\ exit_status = "0" =>
          IF processed_items # <<>>
          THEN Cardinality(IndexEvents) = 1 /\ "index.html" \in DOMAIN out
          ELSE IndexEvents = {} /\ "index.html" \notin DOMAIN out

\* a run over two section entries, the first without a folder, that
\* published two documents of the second and then built the index
C14_Witness ==
    /\ exit_status = "0"
    /\ Len(Sections) = 2
    /\ Len(log) = 6
    /\ log[2].event = "no folder" /\ log[3].event = "section"
    /\ log[4].event = "document" /\ log[5].event = "document"
    /\ log[6].event = "index"
    /\ Len(processed_items) = 2

-----------------------------------------------------------------------------
(* The notebook processor on its own: where the injected cells go *)

\* the cell create_setup_cell generates
IsSetupCell(cell) ==
    /\ cell.cell_type = "code" /\ cell.source # <<>>
    /\ cell.source[1] = [text |-> "# First we need to download some things!"]

SetupPositions(cells) == {k \in DOMAIN cells : IsSetupCell(cells[k])}

NbDeclaresData ==
    /\ "data_files" \in DOMAIN nb.doc.workshop.value
    /\ nb.doc.workshop.value.data_files # <<>>

\* the slide file that applies to the notebook: its own, or else the
\* section's
NbAppliedSlides ==
    IF "slides" \in DOMAIN nb.doc.workshop.value
       /\ nb.doc.workshop.value.slides \notin {NONE, ""}
    THEN nb.doc.workshop.value.slides ELSE nb.section_slides

NbSlidesApply == NbAppliedSlides \notin {NONE, ""}

NbMarkdownCells == {i \in DOMAIN nb.doc.cells : nb.doc.cells[i].cell_type = "markdown"}

\* the number of cells of a written variant that come before the setup cell:
\* the slide-link cell when there is one, and the cells of the source up to
\* its first markdown cell
NbCellsBeforeSetup ==
    (IF NbSlidesApply THEN 1 ELSE 0)
    + (IF NbMarkdownCells = {} THEN 0
       ELSE CHOOSE i \in NbMarkdownCells : \A j \in NbMarkdownCells : i <= j)

\* C15: a published notebook has a setup cell exactly when its metadata
\* declares data files; the setup cell is then one cell, the same at the
\* same index of both variants, right after the first markdown cell of the
\* source (first, but for the slide-link cell, when the source has no
\* markdown cell); when a slide file applies, the first cell of both
\* variants is the slide-link cell, before the setup cell; and no other
\* cell is added.
C15_SetupCellAfterFirstMarkdownCell ==
    NbPublished =>
        /\ SetupPositions(NbExercise) = SetupPositions(NbAnswers)
        /\ NbDeclaresData <=> SetupPositions(NbAnswers) # {}
        /\ NbDeclaresData =>
              /\ SetupPositions(NbAnswers) = {NbCellsBeforeSetup + 1}
              /\ NbExercise[NbCellsBeforeSetup + 1] = NbAnswers[NbCellsBeforeSetup + 1]
              /\ \A i \in 1..Len(nb.doc.cells) :
                    NbAnswers[i + (IF NbSlidesApply THEN 1 ELSE 0)
                                + (IF i + (IF NbSlidesApply THEN 1 ELSE 0) > NbCellsBeforeSetup
                                   THEN 1 ELSE 0)] = nb.doc.cells[i]
        /\ NbSlidesApply =>
              /\ NbExercise[1] = SlideLinkCell(NbAppliedSlides)
              /\ NbAnswers[1] = SlideLinkCell(NbAppliedSlides)
        /\ Len(NbAnswers) = Len(nb.doc.cells) + (IF NbSlidesApply THEN 1 ELSE 0)
                                                + (IF NbDeclaresData THEN 1 ELSE 0)

\* a published notebook of three cells whose first markdown cell is its
\* second cell, with a slide-link cell first and the setup cell fourth
C15_Witness ==
    /\ NbPublished /\ NbDeclaresData /\ NbSlidesApply
    /\ Len(nb.doc.cells) = 3
    /\ nb.doc.cells[1].cell_type = "code" /\ nb.doc.cells[2].cell_type = "markdown"
    /\ SetupPositions(NbExercise) = {4}
    /\ NbAnswers[3] = nb.doc.cells[2]
    /\ NbExercise[1] = SlideLinkCell(NbAppliedSlides)

-----------------------------------------------------------------------------
(* Runs of main: the index they write *)

IndexWritten == "index.html" \in DOMAIN out /\ out["index.html"].kind = "index"

\* the items the index renders, as positions of its blocks
IndexItems ==
    {b \in DOMAIN out["index.html"].blocks : out["index.html"].blocks[b].kind = "item"}

\* the document the record of the item at b was returned for
SourceOf(b) ==
    LET item == out["index.html"].blocks[b].of
    IN  {d \in tree.docs :
            /\ d.stem = item.name /\ d.dir = <<item.section_folder>>
            /\ (d.kind = "md") = ("html_file" \in DOMAIN item)}

\* C16 as stated: an item of the index has a slides line only when its
\* document declares a slide file of its own.
C16_SlidesLineOnlyForOwnSlides ==
    IndexWritten =>
        \A b \in IndexItems :
            out["index.html"].blocks[b].slides # <<>> =>
                \A d \in SourceOf(b) : OwnSlides(d) \notin {NONE, ""}

-----------------------------------------------------------------------------
(* The markdown processor on documents with slides, for every way the two  *)
(* external tools can end and with or without a thumbnail left by an       *)
(* earlier embed of the same slide file.                                   *)

EmbedTools == [convert : {"ok", "fail", "raise"}, pdftoppm : {"ok", "fail", "raise", "nofile"}]

EmbedHeaders ==
    {<<YamlValue(PyDict([title |-> "Y"]))>>,
     <<YamlValue(PyDict([slides |-> "s1.pdf"]))>>}

EmbedOutputs ==
    {EmptyDict,
     [n \in {"s1-thumb.png"} |-> [kind |-> "thumb", from |-> "convert"]],
     [n \in {"s2-thumb.png"} |-> [kind |-> "thumb", from |-> "pdftoppm"]]}

InitEmbed ==
    /\ md \in [doc : [dir : {<<"a">>}, file : {"y.md"}, stem : {"y"},
                      content : [header : EmbedHeaders, body : {RunBody}]],
               section_slides : {NONE, "s2.pdf"},
               files  : {MdFiles \cup present :
                            present \in {{}, {<<"a", "s1.pdf">>, <<"s2.pdf">>}}},
               enum   : {MdEnum},
               tools  : EmbedTools,
               output : EmbedOutputs]
    /\ md_res = Idle
    /\ IdleNb /\ IdleZp /\ IdleIx /\ IdleRun

SpecEmbed == InitEmbed /\ [][NextMd]_vars

\* the slide file that applies to the document: its own, or else the
\* section's
MdAppliedSlides ==
    LET frontmatter == md.doc.content.header[1].value.value
    IN  IF "slides" \in DOMAIN frontmatter THEN frontmatter.slides ELSE md.section_slides

MdSlidesFound ==
    /\ MdAppliedSlides # NONE
    /\ \/ Append(md.doc.dir, MdAppliedSlides) \in md.files
       \/ <<MdAppliedSlides>> \in md.files

\* the thumbnail of the slide file was in the output directory before the call
MdThumbnailExisted ==
    (IF MdAppliedSlides = "s1.pdf" THEN "s1-thumb.png" ELSE "s2-thumb.png")
        \in DOMAIN md.output

MdPreview == md_res.out["y.html"].slides[1].preview

\* C17: for every document whose slide file is found, whatever the tools
\* do, the document is published; no tool is invoked when the thumbnail
\* exists; otherwise convert is invoked first, and pdftoppm after it exactly
\* when convert did not end with return code 0; and the embed shows the
\* placeholder exactly when there was no thumbnail and neither tool made one.
C17_ToolsTriedInSequence ==
    (md_res # Idle /\ MdSlidesFound) =>
        /\ md_res.status = "ok"
        /\ IF MdThumbnailExisted
           THEN md_res.invoked = <<>>
           ELSE IF md.tools.convert = "ok"
                THEN md_res.invoked = <<"convert">>
                ELSE md_res.invoked = <<"convert", "pdftoppm">>
        /\ MdPreview = "placeholder" <=>
              /\ ~ MdThumbnailExisted
              /\ md.tools.convert # "ok"
              /\ md.tools.pdftoppm # "ok"

\* a document published with the placeholder after convert raised and
\* pdftoppm ended with an error
C17_Witness ==
    /\ md_res # Idle /\ MdSlidesFound
    /\ md.tools = [convert |-> "raise", pdftoppm |-> "fail"]
    /\ md_res.status = "ok"
    /\ md_res.invoked = <<"convert", "pdftoppm">>
    /\ MdPreview = "placeholder"

-----------------------------------------------------------------------------
(* The index builder on its own: how often it renders a heading, an item *)

IdxItemBlocks == {b \in DOMAIN IdxBlocks : IdxBlocks[b].kind = "item"}

\* C18 as stated: the index has one heading for every section that has a
\* record and renders every record as often as the run returned it, once.
C18_EveryItemAndHeadingOnce ==
    IdxWritten =>
        /\ \A j \in DOMAIN ix.notebooks :
              Cardinality({h \in IdxHeadings : IdxBlocks[h].title = ix.notebooks[j].section}) = 1
        /\ \A j \in DOMAIN ix.notebooks :
              Cardinality({b \in IdxItemBlocks : IdxBlocks[b].of = ix.notebooks[j]})
                 = Cardinality({k \in DOMAIN ix.notebooks : ix.notebooks[k] = ix.notebooks[j]})

-----------------------------------------------------------------------------
(* Runs of main: what an aborted run leaves *)

\* the files written for every document published before the failure are
\* in the output directory
PublishedOutputsRemain ==
    \A k \in DocEvents :
        log[k].status = "ok" => OutputsOf(DocOf(k)) \subseteq DOMAIN out

\* C19 as stated: after a run ended with a non-zero status the output
\* directory holds no index.html, and it holds the files written for every
\* document that was published before the failure.
C19_NoIndexFileAfterAbort ==
    exit_status = "1" =>
        /\ "index.html" \notin DOMAIN out
        /\ PublishedOutputsRemain

\* C19: after a run ended with a non-zero status the output directory holds
\* no index.html of the index builder nor of a previous run: an index.html
\* in it is the page a processor wrote for a document; and it holds the
\* files written for every document that was published before the failure.
C19_NoIndexOfTheBuilderAfterAbort ==
    exit_status = "1" =>
        /\ "index.html" \in DOMAIN out =>
              /\ out["index.html"].kind = "html"
              /\ \E d \in tree.docs : d.stem = "index" /\ out["index.html"].from = DocPath(d)
        /\ PublishedOutputsRemain

\* a run that published the markdown document index.md and was then ended
\* by the index builder's own slide lookup
C19_Witness ==
    /\ exit_status = "1"
    /\ log[Len(log)] = [event |-> "index", status |-> "exit"]
    /\ "index.html" \in DOMAIN out
    /\ \E k \in DocEvents :
          log[k].status = "ok" /\ DocOf(k).stem = "index"

====
